---- MODULE Spec2Model ----
(***************************************************************************)
(* Model of 03_script_logger/03_script_logger.py (log parsing, filtering,  *)
(* counting and rendering) and of 04_bot_cli/bot_cli.py (contact bot).     *)
(*                                                                         *)
(* A Python str is a sequence of one-character strings.  Three             *)
(* specifications are defined over the same variables:                     *)
(*   Spec       one run of the logger's main()                             *)
(*   SpecParse  parse_log_line applied to every line up to MaxLineLen      *)
(*   SpecBot    the contact bot's command loop                             *)
(***************************************************************************)
EXTENDS Naturals, Integers, Sequences, FiniteSets, TLC

VARIABLES
    argv,        \* sys.argv[1:], a sequence of strings
    fileStatus,  \* what open(file_path) does: "ok" or the OSError kind
    file,        \* the file's lines, without their line terminators
    pc,          \* position of the logger's main()
    idx,         \* load_logs: index of the next line of the file
    acc,         \* load_logs: the list the comprehension is building
    exc,         \* the exception in flight / that ended the run
    logs,        \* main's local 'logs'
    logsBound,   \* whether main's local 'logs' has been assigned
    filtered,    \* main's local 'filtered'
    counts,      \* main's local 'counts'
    stdout,      \* what was printed, line by line
    stderr,      \* what the interpreter wrote for an uncaught exception
    exitStatus,  \* process exit status, -1 while running
    pline,       \* SpecParse: the line handed to parse_log_line
    presult,     \* SpecParse: what parse_log_line gave back
    contacts,    \* bot: the contacts dict
    bpc,         \* bot: position of main()'s loop
    binput,      \* bot: the last line read by input()
    response,    \* bot: what the last command printed
    added        \* bot: names for which add_contact has succeeded

loggerVars == <<argv, fileStatus, file, pc, idx, acc, exc, logs, logsBound,
                filtered, counts, stdout, stderr, exitStatus>>
parseVars == <<pline, presult>>
botVars == <<contacts, bpc, binput, response, added>>
vars == <<loggerVars, parseVars, botVars>>

----------------------------------------------------------------------------
(* Bounds *)

MaxFileLen == 3
MaxLineLen == 10

----------------------------------------------------------------------------
(* Strings *)

WhiteSpace == {" ", "\t", "\n"}

isspace(c) == c \in WhiteSpace

\* ord() of the characters that are compared (level labels, contact names)
Code(c) ==
    CASE c = "1" -> 49 [] c = "2" -> 50 [] c = "3" -> 51 [] c = "4" -> 52
      [] c = "5" -> 53 [] c = "6" -> 54 [] c = "7" -> 55
      [] c = "A" -> 65 [] c = "B" -> 66
      [] c = "E" -> 69 [] c = "I" -> 73 [] c = "W" -> 87
      [] c = "a" -> 97 [] c = "b" -> 98
      [] c = "e" -> 101 [] c = "f" -> 102 [] c = "g" -> 103
      [] c = "i" -> 105 [] c = "s" -> 115 [] c = "t" -> 116
      [] c = "w" -> 119 [] c = "x" -> 120
      [] OTHER -> 0

\* str.upper() on one character
UpperChar(c) ==
    CASE c = "e" -> "E" [] c = "i" -> "I" [] c = "w" -> "W"
      [] c = "a" -> "A" [] c = "b" -> "B" [] c = "f" -> "F"
      [] c = "g" -> "G" [] c = "s" -> "S" [] c = "t" -> "T"
      [] c = "x" -> "X"
      [] OTHER -> c

\* str.lower() on one character
LowerChar(c) ==
    CASE c = "A" -> "a" [] c = "B" -> "b" [] c = "C" -> "c" [] c = "D" -> "d"
      [] c = "E" -> "e" [] c = "I" -> "i" [] c = "T" -> "t" [] c = "X" -> "x"
      [] OTHER -> c

lower(s) == [i \in 1..Len(s) |-> LowerChar(s[i])]

upper(s) == [i \in 1..Len(s) |-> UpperChar(s[i])]

\* str < str: lexicographic by code point
RECURSIVE StrLess(_, _)
StrLess(a, b) ==
    IF b = <<>> THEN FALSE
    ELSE IF a = <<>> THEN TRUE
    ELSE IF Code(Head(a)) # Code(Head(b)) THEN Code(Head(a)) < Code(Head(b))
    ELSE StrLess(Tail(a), Tail(b))

RECURSIVE lstrip(_)
lstrip(s) ==
    IF s # <<>> /\ isspace(Head(s)) THEN lstrip(Tail(s)) ELSE s

RECURSIVE rstrip(_)
rstrip(s) ==
    IF s # <<>> /\ isspace(s[Len(s)]) THEN rstrip(SubSeq(s, 1, Len(s) - 1))
    ELSE s

strip(s) == rstrip(lstrip(s))

\* first position >= i that holds no whitespace (Len(s)+1 if none)
RECURSIVE SkipSpace(_, _)
SkipSpace(s, i) ==
    IF i <= Len(s) /\ isspace(s[i]) THEN SkipSpace(s, i + 1) ELSE i

\* first position >= i that holds whitespace (Len(s)+1 if none)
RECURSIVE SkipWord(_, _)
SkipWord(s, i) ==
    IF i <= Len(s) /\ ~isspace(s[i]) THEN SkipWord(s, i + 1) ELSE i

\* str.split(None, maxsplit): the scan from position i with maxcount splits
\* left; once maxcount is used up the rest, less its leading whitespace, is
\* one last piece
RECURSIVE split_from(_, _, _, _)
split_from(s, i, maxcount, out) ==
    LET j == SkipSpace(s, i) IN
    IF maxcount > 0
    THEN IF j > Len(s) THEN out
         ELSE LET k == SkipWord(s, j)
              IN split_from(s, k, maxcount - 1, Append(out, SubSeq(s, j, k - 1)))
    ELSE IF j <= Len(s) THEN Append(out, SubSeq(s, j, Len(s))) ELSE out

\* a negative maxsplit means no limit; a string of n characters has fewer
\* than n + 1 pieces
split(s, maxsplit) ==
    split_from(s, 1, IF maxsplit < 0 THEN Len(s) + 1 ELSE maxsplit, <<>>)

ljust(s, width) ==
    IF width > Len(s) THEN s \o [i \in 1..(width - Len(s)) |-> " "] ELSE s

repeat(c, n) == [i \in 1..n |-> c]

Digit(d) ==
    CASE d = 0 -> "0" [] d = 1 -> "1" [] d = 2 -> "2" [] d = 3 -> "3"
      [] d = 4 -> "4" [] d = 5 -> "5" [] d = 6 -> "6" [] d = 7 -> "7"
      [] d = 8 -> "8" [] OTHER -> "9"

\* str(n) for n >= 0
RECURSIVE str_int(_)
str_int(n) ==
    IF n < 10 THEN <<Digit(n)>> ELSE Append(str_int(n \div 10), Digit(n % 10))

----------------------------------------------------------------------------
(* 03_script_logger.py: the functions *)

NoEntry == [date |-> <<>>, time |-> <<>>, level |-> <<>>, message |-> <<>>]

\* parse_log_line without the strip() of line 20
parse_log_line_NoStrip(line) ==
    LET parts == split(line, 3) IN
    IF Len(parts) < 4
    THEN [ok |-> FALSE, entry |-> NoEntry, text |-> line]
    ELSE [ok |-> TRUE,
          entry |-> [date |-> parts[1], time |-> parts[2],
                     level |-> parts[3], message |-> parts[4]],
          text |-> <<>>]

parse_log_line(line) ==
    LET parts == split(strip(line), 3) IN
    IF Len(parts) < 4
    THEN [ok |-> FALSE, entry |-> NoEntry, text |-> line]
    ELSE [ok |-> TRUE,
          entry |-> [date |-> parts[1], time |-> parts[2],
                     level |-> parts[3], message |-> parts[4]],
          text |-> <<>>]

RECURSIVE filter_from(_, _, _)
filter_from(ls, level, out) ==
    IF ls = <<>> THEN out
    ELSE filter_from(Tail(ls), level,
                     IF Head(ls).level = level THEN Append(out, Head(ls))
                     ELSE out)

\* filter_logs_by_level without the upper() of line 59
filter_logs_by_level_NoUpper(ls, level) == filter_from(ls, level, <<>>)

filter_logs_by_level(ls, level) == filter_from(ls, upper(level), <<>>)

\* a Counter that records presence instead of counting
RECURSIVE Counter_NoIncrement(_, _)
Counter_NoIncrement(ls, c) ==
    IF ls = <<>> THEN c
    ELSE Counter_NoIncrement(Tail(ls),
                             [x \in DOMAIN c \cup {Head(ls).level} |-> 1])

\* Counter(iterable): one increment per element
RECURSIVE Counter(_, _)
Counter(ls, c) ==
    IF ls = <<>> THEN c
    ELSE LET k == Head(ls).level
         IN Counter(Tail(ls),
                    [x \in DOMAIN c \cup {k} |->
                        IF x = k THEN (IF k \in DOMAIN c THEN c[k] + 1 ELSE 1)
                        ELSE c[x]])

EmptyCounter == [x \in {} |-> 0]

count_logs_by_level(ls) == Counter(ls, EmptyCounter)

RECURSIVE MaxOf(_, _)
MaxOf(S, default) ==
    IF S = {} THEN default
    ELSE LET x == CHOOSE y \in S : TRUE
             m == MaxOf(S \ {x}, default)
         IN IF x > m THEN x ELSE m

calculate_level_width(cnt, header) ==
    LET longest_level == MaxOf({Len(level) : level \in DOMAIN cnt}, 0)
    IN IF Len(header) > longest_level THEN Len(header) ELSE longest_level

\* sorted(keys): ascending by str <
RECURSIVE sorted(_)
sorted(S) ==
    IF S = {} THEN <<>>
    ELSE LET m == CHOOSE x \in S : \A y \in S : x = y \/ StrLess(x, y)
         IN <<m>> \o sorted(S \ {m})

\* the two header labels, 16 and 9 characters long as in the source
\* (transliterated: the source's labels are Cyrillic)
header_level == <<"R","i","v","e","n"," ","l","o","h","u","v","a","n","n","i","a">>
header_count == <<"K","i","l","'","k","i","s","t","'">>

Line(text) == [kind |-> "line", text |-> text]

print_table_header(level_header, count_header, level_width) ==
    << Line(ljust(level_header, level_width) \o <<" ", "|", " ">> \o count_header),
       Line(repeat("-", level_width) \o <<"-", "|">>
            \o repeat("-", Len(count_header) + 1)) >>

\* print_table_rows with the keys in descending order
print_table_rows_Descending(cnt, level_width) ==
    LET order == sorted(DOMAIN cnt)
        n == Len(order)
    IN [i \in 1..n |->
           Line(ljust(order[n + 1 - i], level_width) \o <<" ", "|", " ">>
                \o str_int(cnt[order[n + 1 - i]]))]

print_table_rows(cnt, level_width) ==
    LET order == sorted(DOMAIN cnt) IN
    [i \in 1..Len(order) |->
        Line(ljust(order[i], level_width) \o <<" ", "|", " ">>
             \o str_int(cnt[order[i]]))]

display_log_counts(cnt) ==
    LET level_width == calculate_level_width(cnt, header_level) IN
    print_table_header(header_level, header_count, level_width)
        \o print_table_rows(cnt, level_width)

\* display_filtered_logs with the level printed in each line
display_filtered_logs_WithLevel(ls, level) ==
    IF ls = <<>>
    THEN << Line(<<>>), [kind |-> "no_entries_for_level", text |-> upper(level)] >>
    ELSE << Line(<<>>), [kind |-> "details_for_level", text |-> upper(level)] >>
         \o [i \in 1..Len(ls) |->
                Line(ls[i].date \o <<" ">> \o ls[i].time \o <<" ">> \o ls[i].level
                     \o <<" ", "-", " ">> \o ls[i].message)]

\* print(f"\n...") writes an empty line and then the text; the fixed text of
\* a message is its kind, the interpolated value its text
display_filtered_logs(ls, level) ==
    IF ls = <<>>
    THEN << Line(<<>>), [kind |-> "no_entries_for_level", text |-> upper(level)] >>
    ELSE << Line(<<>>), [kind |-> "details_for_level", text |-> upper(level)] >>
         \o [i \in 1..Len(ls) |->
                Line(ls[i].date \o <<" ">> \o ls[i].time \o <<" ", "-", " ">>
                     \o ls[i].message)]

----------------------------------------------------------------------------
(* 03_script_logger.py: one run of main() *)

\* the lines a log file is made of (without the line terminator)
LinePool ==
    { <<"1", " ", "t", " ", "I", " ", "s">>,                   \* INFO entry
      <<"2", " ", "t", " ", "E", " ", "f">>,                   \* ERROR entry
      <<"3", " ", "t", " ", "E", " ", "f", " ", "g", " ">>,   \* spaces in and after the message
      <<"4", "\t", "t", " ", " ", "e", " ", "x">>,             \* lower-case level
      <<"5", " ", "t", " ", "E", "I", " ", "x">>,              \* two-character level
      <<>>,                                                    \* empty line
      <<" ", "\t">>,                                           \* whitespace only
      <<"6", " ", "t", " ", "I">>,                             \* three tokens
      <<" ", "7">> }                                           \* one token

Files == UNION { [1..n -> LinePool] : n \in 0..MaxFileLen }

file_path == <<"p">>

ArgvPool ==
    { <<>>,
      <<file_path>>,
      <<file_path, <<"e">>>>,
      <<file_path, <<"E">>>>,
      <<file_path, <<"i">>>>,
      <<file_path, <<"W">>>>,
      <<file_path, <<"e", "i">>>>,
      <<file_path, <<"E">>, <<"x">>>> }

FileStatuses == {"ok", "FileNotFoundError", "PermissionError", "OSError"}

NoExc == [type |-> "None", text |-> <<>>]

Init ==
    /\ argv \in ArgvPool
    /\ fileStatus \in FileStatuses
    /\ file \in Files
    /\ fileStatus # "ok" => file = <<>>
    /\ pc = "start"
    /\ idx = 0
    /\ acc = <<>>
    /\ exc = NoExc
    /\ logs = <<>>
    /\ logsBound = FALSE
    /\ filtered = <<>>
    /\ counts = EmptyCounter
    /\ stdout = <<>>
    /\ stderr = <<>>
    /\ exitStatus = -1
    /\ pline = <<>>
    /\ presult = [ok |-> FALSE, entry |-> NoEntry, text |-> <<>>]
    /\ contacts = [x \in {} |-> <<>>]
    /\ bpc = "off"
    /\ binput = <<>>
    /\ response = <<>>
    /\ added = {}

\* main, lines 120-124: the usage check
MainStart ==
    /\ pc = "start"
    /\ IF Len(argv) < 1
       THEN /\ stdout' = Append(stdout, [kind |-> "usage", text |-> <<>>])
            /\ exitStatus' = 1
            /\ pc' = "exited"
       ELSE /\ pc' = "open"
            /\ UNCHANGED <<stdout, exitStatus>>
    /\ UNCHANGED <<argv, fileStatus, file, idx, acc, exc, logs, logsBound,
                   filtered, counts, stderr, parseVars, botVars>>

\* load_logs, lines 38-39 and 46-53: open() and the three except clauses,
\* each of which raises its own exception type again
LoadOpen ==
    /\ pc = "open"
    /\ IF fileStatus = "ok"
       THEN /\ pc' = "reading"
            /\ idx' = 1
            /\ acc' = <<>>
            /\ exc' = exc
       ELSE /\ pc' = "raised"
            /\ exc' = [type |-> fileStatus, text |-> argv[1]]
            /\ UNCHANGED <<idx, acc>>
    /\ UNCHANGED <<argv, fileStatus, file, logs, logsBound, filtered, counts,
                   stdout, stderr, exitStatus, parseVars, botVars>>

\* load_logs that leaves a malformed line out and goes on
LoadLine_SkipMalformed ==
    /\ pc = "reading"
    /\ idx <= Len(file)
    /\ LET line == Append(file[idx], "\n")
           r == parse_log_line(line)
       IN /\ acc' = IF strip(line) # <<>> /\ r.ok THEN Append(acc, r.entry) ELSE acc
          /\ idx' = idx + 1
          /\ UNCHANGED <<exc, pc>>
    /\ UNCHANGED <<argv, fileStatus, file, logs, logsBound, filtered, counts,
                   stdout, stderr, exitStatus, parseVars, botVars>>

\* load_logs without the 'if line.strip()' of line 43
LoadLine_NoBlankSkip ==
    /\ pc = "reading"
    /\ idx <= Len(file)
    /\ LET line == Append(file[idx], "\n")
           r == parse_log_line(line)
       IN IF r.ok
          THEN /\ acc' = Append(acc, r.entry)
               /\ idx' = idx + 1
               /\ UNCHANGED <<exc, pc>>
          ELSE /\ exc' = [type |-> "ValueError", text |-> r.text]
               /\ acc' = <<>>
               /\ pc' = "raised"
               /\ idx' = idx
    /\ UNCHANGED <<argv, fileStatus, file, logs, logsBound, filtered, counts,
                   stdout, stderr, exitStatus, parseVars, botVars>>

\* load_logs, lines 40-44: one iteration of the comprehension; a ValueError
\* from parse_log_line matches none of the except clauses and leaves
\* load_logs, the list under construction is dropped
LoadLine ==
    /\ pc = "reading"
    /\ idx <= Len(file)
    /\ LET line == Append(file[idx], "\n")
           r == parse_log_line(line)
       IN IF strip(line) = <<>>
          THEN /\ idx' = idx + 1
               /\ UNCHANGED <<acc, exc, pc>>
          ELSE IF r.ok
          THEN /\ acc' = Append(acc, r.entry)
               /\ idx' = idx + 1
               /\ UNCHANGED <<exc, pc>>
          ELSE /\ exc' = [type |-> "ValueError", text |-> r.text]
               /\ acc' = <<>>
               /\ pc' = "raised"
               /\ idx' = idx
    /\ UNCHANGED <<argv, fileStatus, file, logs, logsBound, filtered, counts,
                   stdout, stderr, exitStatus, parseVars, botVars>>

\* load_logs returns the list; main, line 127, binds it to 'logs'
LoadReturn ==
    /\ pc = "reading"
    /\ idx > Len(file)
    /\ logs' = acc
    /\ logsBound' = TRUE
    /\ pc' = "dispatch"
    /\ UNCHANGED <<argv, fileStatus, file, idx, acc, exc, filtered, counts,
                   stdout, stderr, exitStatus, parseVars, botVars>>

CaughtByMain == {"FileNotFoundError", "PermissionError", "OSError"}

\* main, lines 129-131: the except clause; any other exception leaves main
\* and the interpreter prints the traceback to stderr and exits with 1
MainExcept ==
    /\ pc = "raised"
    /\ IF exc.type \in CaughtByMain
       THEN /\ stdout' = Append(stdout, [kind |-> "Error", text |-> exc.text])
            /\ pc' = "exited"
            /\ stderr' = stderr
       ELSE /\ stderr' = Append(stderr, [kind |-> "Traceback", text |-> exc.text])
            /\ pc' = "uncaught"
            /\ stdout' = stdout
    /\ exitStatus' = 1
    /\ UNCHANGED <<argv, fileStatus, file, idx, acc, exc, logs, logsBound,
                   filtered, counts, parseVars, botVars>>

\* main, lines 133-136
MainFilter ==
    /\ pc = "dispatch"
    /\ Len(argv) = 2
    /\ LET level == argv[2]
           f == filter_logs_by_level(logs, level)
       IN /\ filtered' = f
          /\ stdout' = stdout \o display_filtered_logs(f, level)
    /\ pc' = "done"
    /\ exitStatus' = 0
    /\ UNCHANGED <<argv, fileStatus, file, idx, acc, exc, logs, logsBound,
                   counts, stderr, parseVars, botVars>>

\* main, lines 137-139
MainCount ==
    /\ pc = "dispatch"
    /\ Len(argv) # 2
    /\ LET c == count_logs_by_level(logs)
       IN /\ counts' = c
          /\ stdout' = stdout \o display_log_counts(c)
    /\ pc' = "done"
    /\ exitStatus' = 0
    /\ UNCHANGED <<argv, fileStatus, file, idx, acc, exc, logs, logsBound,
                   filtered, stderr, parseVars, botVars>>

Next ==
    \/ MainStart
    \/ LoadOpen
    \/ LoadLine
    \/ LoadReturn
    \/ MainExcept
    \/ MainFilter
    \/ MainCount

Spec == Init /\ [][Next]_vars

----------------------------------------------------------------------------
(* parse_log_line on every line up to MaxLineLen *)

ParseAlphabet == {" ", "a", "b"}

ParseLines == UNION { [1..n -> ParseAlphabet] : n \in 0..MaxLineLen }

InitParse ==
    /\ pline \in ParseLines
    /\ presult = [ok |-> FALSE, entry |-> NoEntry, text |-> <<>>]
    /\ pc = "parse"
    /\ argv = <<>>
    /\ fileStatus = "ok"
    /\ file = <<>>
    /\ idx = 0
    /\ acc = <<>>
    /\ exc = NoExc
    /\ logs = <<>>
    /\ logsBound = FALSE
    /\ filtered = <<>>
    /\ counts = EmptyCounter
    /\ stdout = <<>>
    /\ stderr = <<>>
    /\ exitStatus = -1
    /\ contacts = [x \in {} |-> <<>>]
    /\ bpc = "off"
    /\ binput = <<>>
    /\ response = <<>>
    /\ added = {}

ParseLine ==
    /\ pc = "parse"
    /\ presult' = parse_log_line(pline)
    /\ pc' = "parsed"
    /\ UNCHANGED <<argv, fileStatus, file, idx, acc, exc, logs, logsBound,
                   filtered, counts, stdout, stderr, exitStatus, pline, botVars>>

NextParse == ParseLine

SpecParse == InitParse /\ [][NextParse]_vars

----------------------------------------------------------------------------
(* What a line is made of, stated on positions of the line itself *)

\* positions where a whitespace-delimited token starts
TokenStarts(s) ==
    { i \in 1..Len(s) : ~isspace(s[i]) /\ (i = 1 \/ isspace(s[i - 1])) }

TokenCount(s) == Cardinality(TokenStarts(s))

\* the n-th smallest element of a set of numbers
NthOf(S, n) == CHOOSE i \in S : Cardinality({ j \in S : j <= i }) = n

\* last position of the token that starts at i
TokenEnd(s, i) ==
    CHOOSE k \in i..Len(s) :
        /\ \A m \in i..k : ~isspace(s[m])
        /\ (k = Len(s) \/ isspace(s[k + 1]))

Token(s, n) ==
    LET i == NthOf(TokenStarts(s), n) IN SubSeq(s, i, TokenEnd(s, i))

\* everything from the start of the 4th token to the end of the line
RestVerbatim(s) == SubSeq(s, NthOf(TokenStarts(s), 4), Len(s))

\* the same, up to the last character that is not whitespace
RestTrimmed(s) ==
    SubSeq(s, NthOf(TokenStarts(s), 4),
           CHOOSE k \in 1..Len(s) :
               ~isspace(s[k]) /\ \A m \in (k + 1)..Len(s) : isspace(s[m]))

IsBlank(s) == \A i \in 1..Len(s) : isspace(s[i])

IsMalformed(s) == ~IsBlank(s) /\ TokenCount(s) < 4

\* line i of the file as iteration over the file yields it
RawLine(i) == Append(file[i], "\n")

Malformed == { i \in 1..Len(file) : IsMalformed(file[i]) }

NonBlank == { i \in 1..Len(file) : ~IsBlank(file[i]) }

EntryOf(s) ==
    [date |-> Token(s, 1), time |-> Token(s, 2), level |-> Token(s, 3),
     message |-> RestTrimmed(s)]

LoadRan == fileStatus = "ok" /\ pc \notin {"start", "open", "exited"}

----------------------------------------------------------------------------
(* Claims about load and parse *)

\* C1: when the file has a non-blank line with fewer than 4 tokens, load
\* never gets past the first such line: it ends with a ValueError carrying
\* that line, whatever precedes or follows it, and main's 'logs' is never
\* bound, not even to the entries parsed before the bad line.
C1_LoadIsStrict ==
    (LoadRan /\ Malformed # {}) =>
        LET bad == NthOf(Malformed, 1) IN
        /\ ~logsBound
        /\ pc \in {"reading", "raised", "uncaught"}
        /\ pc = "reading" => idx <= bad /\ exc = NoExc
        /\ pc # "reading" =>
              exc = [type |-> "ValueError", text |-> RawLine(bad)]

\* a three-line file whose second line is malformed, between two good ones
C1_Witness ==
    /\ pc = "raised"
    /\ Len(file) = 3
    /\ Malformed = {2}
    /\ NonBlank = {1, 2, 3}
    /\ exc.type = "ValueError"

\* C2 (as claimed): every run that ends on an error of load, a malformed
\* line as much as a file-access error, ends in main's handler with the
\* message on stdout naming the error's subject, a non-zero exit status, and
\* nothing else printed.
C2_ErrorsHandledAtBoundary ==
    (exc # NoExc /\ exitStatus # -1) =>
        /\ pc = "exited"
        /\ exitStatus # 0
        /\ stdout = << [kind |-> "Error", text |-> exc.text] >>

\* C3 (as claimed): for a line with at least 4 tokens parse gives the first
\* three tokens as date, time and level, and as message everything that
\* follows, trailing whitespace included.
C3_MessageVerbatim ==
    (pc = "parsed" /\ TokenCount(pline) >= 4) =>
        /\ presult.ok
        /\ presult.entry.date = Token(pline, 1)
        /\ presult.entry.time = Token(pline, 2)
        /\ presult.entry.level = Token(pline, 3)
        /\ presult.entry.message = RestVerbatim(pline)

\* C3 (amended): for a line with at least 4 tokens parse gives the first
\* three tokens as date, time and level, and as message the text from the
\* 4th token to the last non-whitespace character of the line: whitespace
\* inside the message is kept, whitespace at the end of the line is not.
C3_MessageTrimmed ==
    (pc = "parsed" /\ TokenCount(pline) >= 4) =>
        /\ presult.ok
        /\ presult.entry = EntryOf(pline)

\* a line whose message holds a space and which ends in whitespace
C3_Witness ==
    /\ pc = "parsed"
    /\ presult.ok
    /\ TokenCount(pline) = 5
    /\ isspace(pline[Len(pline)])
    /\ Len(presult.entry.message) = 3

\* C5: when no line is malformed, load never raises and returns one entry
\* per non-blank line, in file order; blank lines are skipped, so a file of
\* blank lines only gives the empty list.
C5_LoadOnePerNonBlankLine ==
    (LoadRan /\ Malformed = {}) =>
        /\ exc = NoExc
        /\ logsBound =>
              /\ Len(logs) = Cardinality(NonBlank)
              /\ \A k \in 1..Len(logs) :
                    logs[k] = EntryOf(RawLine(NthOf(NonBlank, k)))

\* the same line twice with a blank line in between
C5_Witness ==
    /\ logsBound
    /\ Len(file) = 3
    /\ IsBlank(file[2])
    /\ file[1] = file[3]
    /\ Len(logs) = 2
    /\ logs[1] = logs[2]

----------------------------------------------------------------------------
(* Claims about filtering, counting and rendering *)

Levels(ls) == { ls[i].level : i \in 1..Len(ls) }

Occurrences(ls, l) == Cardinality({ i \in 1..Len(ls) : ls[i].level = l })

RECURSIVE SumOf(_, _)
SumOf(f, S) ==
    IF S = {} THEN 0
    ELSE LET x == CHOOSE y \in S : TRUE IN f[x] + SumOf(f, S \ {x})

\* the positions of the entries whose stored level is l
Matching(ls, l) == { i \in 1..Len(ls) : ls[i].level = l }

\* the entries at the positions P, in their order in ls
Selected(ls, P) == [k \in 1..Cardinality(P) |-> ls[NthOf(P, k)]]

\* queries that differ from q in letter case only
CaseVariants(q) ==
    { v \in [1..Len(q) -> {"e", "E", "i", "I", "w", "W"}] : upper(v) = upper(q) }

FilterRan == pc = "done" /\ Len(argv) = 2

CountRan == pc = "done" /\ Len(argv) # 2

\* C4: the filter returns exactly the entries whose stored level equals the
\* upper-cased query, in their original order (the empty list when there is
\* none, without error), and every query that differs in letter case only
\* gives the same result.
C4_FilterNormalizesQuery ==
    FilterRan =>
        /\ filtered = Selected(logs, Matching(logs, upper(argv[2])))
        /\ \A v \in CaseVariants(argv[2]) :
              filter_logs_by_level(logs, v) = filtered
        /\ exc = NoExc

\* a lower-case query that selects two of three entries
C4_Witness ==
    /\ FilterRan
    /\ argv[2] = <<"e">>
    /\ Len(logs) = 3
    /\ Len(filtered) = 2
    /\ logs[2] \notin { filtered[1], filtered[2] }

\* C6: the counts' keys are exactly the levels present, each with its number
\* of occurrences, so that the counts sum to the number of entries; the empty
\* list gives the empty mapping, the list is left as load returned it, and
\* counting again gives the same mapping.
C6_CountsAreExact ==
    CountRan =>
        /\ DOMAIN counts = Levels(logs)
        /\ \A l \in DOMAIN counts : counts[l] = Occurrences(logs, l)
        /\ SumOf(counts, DOMAIN counts) = Len(logs)
        /\ logs = <<>> => counts = EmptyCounter
        /\ logs = acc
        /\ count_logs_by_level(logs) = counts

\* three entries of two levels
C6_Witness ==
    /\ CountRan
    /\ Len(logs) = 3
    /\ Cardinality(DOMAIN counts) = 2
    /\ \E l \in DOMAIN counts : counts[l] = 2

\* the levels of a list in ascending order
Ascending(S) ==
    CHOOSE o \in [1..Cardinality(S) -> S] :
        \A i, j \in 1..Cardinality(S) : i < j => StrLess(o[i], o[j])

\* C7: after the header and separator rows the count table has one row per
\* distinct level, the level padded to the column width, then " | " and the
\* count, in ascending lexicographic order of the levels whatever their order
\* in the input.
C7_RowsSortedByLevel ==
    CountRan =>
        LET order == Ascending(Levels(logs))
            lens == { Len(l) : l \in Levels(logs) } \cup {Len(header_level)}
            width == CHOOSE w \in lens : \A x \in lens : x <= w
        IN /\ Len(stdout) = 2 + Cardinality(Levels(logs))
           /\ \A i \in 1..Len(order) :
                 /\ stdout[2 + i].kind = "line"
                 /\ stdout[2 + i].text =
                       order[i] \o repeat(" ", width - Len(order[i]))
                       \o <<" ", "|", " ">>
                       \o str_int(Occurrences(logs, order[i]))

\* levels I, E, E in the input: the E row comes first
C7_Witness ==
    /\ CountRan
    /\ Len(logs) = 3
    /\ logs[1].level = <<"I">>
    /\ logs[2].level = <<"E">>
    /\ logs[3].level = <<"E">>
    /\ Head(stdout[3].text) = "E"
    /\ Head(stdout[4].text) = "I"

DetailLine(e) == e.date \o <<" ">> \o e.time \o <<" ", "-", " ">> \o e.message

\* C8 (as claimed): detail mode always prints a header line naming the
\* level; for an empty list a single notice follows and no entry lines,
\* otherwise one line per entry in list order, "date time - message".
C8_HeaderAlwaysPrinted ==
    FilterRan =>
        /\ \E k \in 1..Len(stdout) :
              /\ stdout[k].kind = "details_for_level"
              /\ stdout[k].text \in {argv[2], upper(argv[2])}
        /\ Cardinality({ k \in 1..Len(stdout) :
                            stdout[k].kind = "no_entries_for_level" })
              = (IF filtered = <<>> THEN 1 ELSE 0)
        /\ LET lines == SelectSeq(stdout, LAMBDA o : o.kind = "line" /\ o.text # <<>>)
           IN /\ Len(lines) = Len(filtered)
              /\ \A i \in 1..Len(lines) : lines[i].text = DetailLine(filtered[i])

\* C8 (amended): for an empty list detail mode prints only the notice, which
\* names the upper-cased level, and no header; otherwise it prints a header
\* line naming the upper-cased level and then one line per entry in list
\* order, "date time - message", without the level.
C8_DetailRendering ==
    FilterRan =>
        /\ Len(stdout) = (IF filtered = <<>> THEN 2 ELSE 2 + Len(filtered))
        /\ stdout[1] = Line(<<>>)
        /\ stdout[2].kind = (IF filtered = <<>> THEN "no_entries_for_level"
                             ELSE "details_for_level")
        /\ stdout[2].text = upper(argv[2])
        /\ \A i \in 1..Len(filtered) :
              stdout[2 + i] = Line(DetailLine(filtered[i]))

\* two entries listed in file order, which is not their sorted order
C8_Witness ==
    /\ FilterRan
    /\ Len(filtered) = 2
    /\ StrLess(filtered[2].date, filtered[1].date)
    /\ Len(stdout) = 4

----------------------------------------------------------------------------
(* 04_bot_cli/bot_cli.py *)

DigitChars == {"0", "1", "2", "3", "4", "5", "6", "7", "8", "9"}

\* str.isdigit()
isdigit(s) == s # <<>> /\ \A i \in 1..Len(s) : s[i] \in DigitChars

\* what a handler does: the exception it raises ("None" if it returns), the
\* exception's message or the returned message, and the contacts afterwards
Raise(type, msg, c) == [exc |-> type, msg |-> msg, text |-> <<>>, contacts |-> c]

Return(msg, text, c) == [exc |-> "None", msg |-> msg, text |-> text, contacts |-> c]

\* the decorator: the three exception types become messages
input_error(r) ==
    [response |->
        << [msg |-> CASE r.exc = "KeyError" -> "Contact not found."
                      [] r.exc = "IndexError" ->
                            "Enter the required arguments for this command."
                      [] r.exc = "ValueError" ->
                            (IF r.msg # "" THEN r.msg ELSE "Invalid input.")
                      [] OTHER -> r.msg,
            text |-> r.text] >>,
     contacts |-> r.contacts]

parse_input(user_input) ==
    LET parts == split(user_input, -1) IN
    IF parts = <<>>
    THEN [raised |-> TRUE, value |-> <<>>]
    ELSE [raised |-> FALSE, value |-> <<lower(strip(parts[1]))>> \o Tail(parts)]

\* the message of the ValueError validate_phone raises, "" if it returns
validate_phone(phone) ==
    IF ~isdigit(phone) THEN "Wrong phone format. It must contain only digits."
    ELSE IF Len(phone) # 10 THEN "Wrong phone format. It must contain 10 digits."
    ELSE ""

\* contacts[name] = phone
SetItem(c, name, phone) ==
    [x \in DOMAIN c \cup {name} |-> IF x = name THEN phone ELSE c[x]]

add_contact(args, c) ==
    input_error(
        IF Len(args) # 2
        THEN Raise("ValueError", "Give me name and phone please.", c)
        ELSE IF validate_phone(args[2]) # ""
        THEN Raise("ValueError", validate_phone(args[2]), c)
        ELSE Return("Contact added.", <<>>, SetItem(c, args[1], args[2])))

\* change_contact without the membership test of lines 105-106
change_contact_Upsert(args, c) ==
    input_error(
        IF Len(args) # 2
        THEN Raise("ValueError", "Give me name and new phone please.", c)
        ELSE IF validate_phone(args[2]) # ""
        THEN Raise("ValueError", validate_phone(args[2]), c)
        ELSE Return("Contact updated.", <<>>, SetItem(c, args[1], args[2])))

change_contact(args, c) ==
    input_error(
        IF Len(args) # 2
        THEN Raise("ValueError", "Give me name and new phone please.", c)
        ELSE IF args[1] \notin DOMAIN c
        THEN Raise("KeyError", "", c)
        ELSE IF validate_phone(args[2]) # ""
        THEN Raise("ValueError", validate_phone(args[2]), c)
        ELSE Return("Contact updated.", <<>>, SetItem(c, args[1], args[2])))

show_phone(args, c) ==
    input_error(
        IF Len(args) # 1
        THEN Raise("ValueError", "Enter user name.", c)
        ELSE IF args[1] \notin DOMAIN c
        THEN Raise("KeyError", "", c)
        ELSE Return("", args[1] \o <<":", " ">> \o c[args[1]], c))

\* "\n".join(parts)
RECURSIVE join_lines(_)
join_lines(parts) ==
    IF parts = <<>> THEN <<>>
    ELSE IF Len(parts) = 1 THEN parts[1]
    ELSE parts[1] \o <<"\n">> \o join_lines(Tail(parts))

show_all(c) ==
    input_error(
        IF DOMAIN c = {}
        THEN Return("No contacts found.", <<>>, c)
        ELSE LET names == sorted(DOMAIN c)
             IN Return("", join_lines([i \in 1..Len(names) |->
                                names[i] \o <<":", " ">> \o c[names[i]]]), c))

show_help == [msg |-> "Available commands:", text |-> <<>>]

\* the tokens of the input lines
T_add == <<"a", "d", "d">>
T_change == <<"c", "h", "a", "n", "g", "e">>
T_phone == <<"p", "h", "o", "n", "e">>
T_all == <<"a", "l", "l">>
T_hello == <<"h", "e", "l", "l", "o">>
T_help == <<"h", "e", "l", "p">>
T_close == <<"c", "l", "o", "s", "e">>
T_exit == <<"e", "x", "i", "t">>
NameA == <<"A">>
NameB == <<"B">>
Phone1 == <<"0", "1", "2", "3", "4", "5", "6", "7", "8", "9">>
Phone2 == <<"9", "8", "7", "6", "5", "4", "3", "2", "1", "0">>
PhoneShort == <<"1", "2", "3", "4", "5", "6", "7", "8", "9">>
PhoneLong == <<"0", "1", "2", "3", "4", "5", "6", "7", "8", "9", "0">>
PhoneAlpha == <<"0", "1", "2", "3", "4", "x", "6", "7", "8", "9">>

RECURSIVE Words(_)
Words(tokens) ==
    IF tokens = <<>> THEN <<>>
    ELSE IF Len(tokens) = 1 THEN tokens[1]
    ELSE tokens[1] \o <<" ">> \o Words(Tail(tokens))

\* the lines the user types
InputPool ==
    { <<>>, <<" ", " ">> }
    \cup { Words(<<cmd>> \o args) :
              cmd \in {T_add, T_change},
              args \in { <<>>, <<NameA>>, <<NameA, Phone1>>, <<NameA, Phone2>>,
                         <<NameB, Phone1>>, <<NameB, PhoneShort>>,
                         <<NameA, PhoneLong>>, <<NameB, PhoneAlpha>>,
                         <<NameA, Phone1, Phone2>> } }
    \cup { Words(<<T_phone>> \o args) :
              args \in { <<>>, <<NameA>>, <<NameB>>, <<NameA, NameB>> } }
    \cup { Words(ts) :
              ts \in { <<T_all>>, <<T_all, NameA>>, <<T_hello>>, <<T_help>>,
                       <<T_close>>, <<T_exit>>, <<T_exit, NameA>>,
                       <<NameA>>, <<Phone1>>,
                       << <<"A", "d", "d">>, NameB, Phone2 >>,
                       << <<"E", "X", "I", "T">> >> } }
    \cup { <<" ">> \o T_all \o <<" ">> }

Welcome == << [msg |-> "Welcome to the assistant bot!", text |-> <<>>], show_help >>

InitBot ==
    /\ contacts = [x \in {} |-> <<>>]
    /\ bpc = "prompt"
    /\ binput = <<>>
    /\ response = Welcome
    /\ added = {}
    /\ stderr = <<>>
    /\ pc = "off"
    /\ argv = <<>>
    /\ fileStatus = "ok"
    /\ file = <<>>
    /\ idx = 0
    /\ acc = <<>>
    /\ exc = NoExc
    /\ logs = <<>>
    /\ logsBound = FALSE
    /\ filtered = <<>>
    /\ counts = EmptyCounter
    /\ stdout = <<>>
    /\ exitStatus = -1
    /\ pline = <<>>
    /\ presult = [ok |-> FALSE, entry |-> NoEntry, text |-> <<>>]

botRest == <<argv, fileStatus, file, pc, idx, acc, exc, logs, logsBound,
             filtered, counts, stdout, exitStatus, parseVars>>

\* main, lines 197-198: input() gave inp and parse_input split it
Command(inp) == parse_input(inp).value[1]

Args(inp) == Tail(parse_input(inp).value)

Reads(inp) == bpc = "prompt" /\ ~parse_input(inp).raised /\ binput' = inp

Known == {T_hello, T_add, T_change, T_phone, T_all, T_help}

\* line 198: the unpacking in parse_input raises ValueError on a line without
\* a token; nothing in main catches it
BotCrash ==
    \E inp \in InputPool :
        /\ bpc = "prompt"
        /\ parse_input(inp).raised
        /\ binput' = inp
        /\ bpc' = "crashed"
        /\ stderr' = Append(stderr, [kind |-> "Traceback", text |-> <<>>])
        /\ UNCHANGED <<contacts, response, added, botRest>>

\* lines 200-202
BotExit ==
    \E inp \in InputPool :
        /\ Reads(inp)
        /\ Command(inp) \in {T_close, T_exit}
        /\ response' = << [msg |-> "Good bye!", text |-> <<>>] >>
        /\ bpc' = "exited"
        /\ UNCHANGED <<contacts, added, stderr, botRest>>

\* lines 204-205 with commands["hello"]
BotHello ==
    \E inp \in InputPool :
        /\ Reads(inp)
        /\ Command(inp) = T_hello
        /\ response' = << [msg |-> "How can I help you?", text |-> <<>>] >>
        /\ UNCHANGED <<contacts, bpc, added, stderr, botRest>>

\* lines 204-205 with commands["add"]
BotAdd ==
    \E inp \in InputPool :
        /\ Reads(inp)
        /\ Command(inp) = T_add
        /\ LET r == add_contact(Args(inp), contacts)
           IN /\ response' = r.response
              /\ contacts' = r.contacts
              /\ added' = IF r.response[1].msg = "Contact added."
                          THEN added \cup {Args(inp)[1]} ELSE added
        /\ UNCHANGED <<bpc, stderr, botRest>>

\* lines 204-205 with commands["change"]
BotChange ==
    \E inp \in InputPool :
        /\ Reads(inp)
        /\ Command(inp) = T_change
        /\ LET r == change_contact(Args(inp), contacts)
           IN /\ response' = r.response
              /\ contacts' = r.contacts
        /\ UNCHANGED <<bpc, added, stderr, botRest>>

\* lines 204-205 with commands["phone"]
BotPhone ==
    \E inp \in InputPool :
        /\ Reads(inp)
        /\ Command(inp) = T_phone
        /\ LET r == show_phone(Args(inp), contacts)
           IN /\ response' = r.response
              /\ contacts' = r.contacts
        /\ UNCHANGED <<bpc, added, stderr, botRest>>

\* lines 204-205 with commands["all"]
BotAll ==
    \E inp \in InputPool :
        /\ Reads(inp)
        /\ Command(inp) = T_all
        /\ LET r == show_all(contacts)
           IN /\ response' = r.response
              /\ contacts' = r.contacts
        /\ UNCHANGED <<bpc, added, stderr, botRest>>

\* lines 204-205 with commands["help"]
BotHelp ==
    \E inp \in InputPool :
        /\ Reads(inp)
        /\ Command(inp) = T_help
        /\ response' = <<show_help>>
        /\ UNCHANGED <<contacts, bpc, added, stderr, botRest>>

\* lines 206-208
BotInvalid ==
    \E inp \in InputPool :
        /\ Reads(inp)
        /\ Command(inp) \notin Known \cup {T_close, T_exit}
        /\ response' = << [msg |-> "Invalid command. Please use one of the following commands:",
                           text |-> <<>>], show_help >>
        /\ UNCHANGED <<contacts, bpc, added, stderr, botRest>>

NextBot ==
    \/ BotCrash
    \/ BotExit
    \/ BotHello
    \/ BotAdd
    \/ BotChange
    \/ BotPhone
    \/ BotAll
    \/ BotHelp
    \/ BotInvalid

SpecBot == InitBot /\ [][NextBot]_vars

----------------------------------------------------------------------------
(* Claims about the bot *)

\* C9 (as claimed): whatever line is read, the loop answers and stays at the
\* prompt; it is left only through close or exit, never through an error.
C9_LoopSurvivesEveryInput ==
    bpc # "prompt" =>
        /\ bpc = "exited"
        /\ ~parse_input(binput).raised
        /\ Command(binput) \in {T_close, T_exit}

ErrorMessages ==
    { "Contact not found.", "Enter the required arguments for this command.",
      "Invalid input.", "Give me name and phone please.",
      "Give me name and new phone please.", "Enter user name.",
      "Wrong phone format. It must contain only digits.",
      "Wrong phone format. It must contain 10 digits." }

C10_StoreValid ==
    \A name \in DOMAIN contacts :
        /\ Len(contacts[name]) = 10
        /\ \A i \in 1..10 : contacts[name][i] \in DigitChars
        /\ name \in added

C10_StoreStep ==
    /\ response'[1].msg \in ErrorMessages => contacts' = contacts
    /\ Command(binput') \notin {T_add, T_change} => contacts' = contacts
    /\ Command(binput') = T_change => DOMAIN contacts' = DOMAIN contacts

\* C10: every stored phone is ten digits and every stored name was put there
\* by a successful add; a command that answers with an error message leaves
\* the contacts as they were, so do phone, all, hello, help, and change never
\* adds a name.
C10_StoreIntegrity ==
    [](bpc # "off" => C10_StoreValid)
    /\ [][(bpc = "prompt" /\ bpc' # "crashed") => C10_StoreStep]_vars

\* two contacts stored, and the last command was refused for its phone
C10_Witness ==
    /\ bpc = "prompt"
    /\ DOMAIN contacts = {NameA, NameB}
    /\ Command(binput) = T_change
    /\ response[1].msg = "Wrong phone format. It must contain 10 digits."

====
